---- MODULE Spec2Model ----
(***************************************************************************)
(* Model of armory.py, the validator of DeepSource issue definition files. *)
(*                                                                         *)
(* Text that the program slices or tests by prefix/suffix (paths, titles)  *)
(* is a sequence of one-character strings.  Text that the program only     *)
(* produces itself and never inspects (issue codes, message fragments) is *)
(* a TLA+ string; an issue text is the sequence of its fragments.          *)
(* A TOML value is a tagged record: None is what dict.get returns for an   *)
(* absent key.                                                             *)
(***************************************************************************)
EXTENDS Integers, Sequences, FiniteSets, TLC

VARIABLES CODE_PATH, walk, idx, issues, origin, pc, published

vars == <<CODE_PATH, walk, idx, issues, origin, pc, published>>

\* CODE_PATH  the environment variable read at import (None: unset)
\* walk       the files os.walk yields, in the order it yields them
\* idx        how many of them the loop of main has taken up
\* issues     the list `issues` of main
\* origin     history: origin[j] is the position in walk of the file that
\*            was in hand when issues[j] was appended
\* pc         "walk" in the loop, "done" after the publish, "raised" after
\*            an uncaught exception ended the process
\* published  the envelopes handed to /toolbox/marvin so far

(* ---------------------------- bounds ---------------------------------- *)

\* Largest number of files found under the issues directory.
MaxFiles == 2

(* ------------------------ Python values ------------------------------- *)

None == [type |-> "none"]

PyStr(s) == [type |-> "str", s |-> s]

PyInt(n) == [type |-> "int", n |-> n]

PyBool(b) == [type |-> "bool", b |-> b]

\* Python truth value of a TOML value (or of None).
Truthy(v) ==
    CASE v.type = "none" -> FALSE
      [] v.type = "str"  -> Len(v.s) > 0
      [] v.type = "int"  -> v.n # 0
      [] v.type = "bool" -> v.b

\* str.startswith
startswith(s, prefix) ==
    /\ Len(s) >= Len(prefix)
    /\ SubSeq(s, 1, Len(prefix)) = prefix

\* str.endswith
endswith(s, suffix) ==
    /\ Len(s) >= Len(suffix)
    /\ SubSeq(s, Len(s) - Len(suffix) + 1, Len(s)) = suffix

\* os.path.join of two components (POSIX).
os_path_join(a, b) ==
    IF startswith(b, <<"/">>) THEN b
    ELSE IF a = <<>> \/ endswith(a, <<"/">>) THEN a \o b
    ELSE a \o <<"/">> \o b

(* ------------------------ module constants ---------------------------- *)

CATEGORIES ==
    << <<"b", "u", "g", "-", "r", "i", "s", "k">>,
       <<"d", "o", "c">>,
       <<"s", "t", "y", "l", "e">>,
       <<"a", "n", "t", "i", "p", "a", "t", "t", "e", "r", "n">>,
       <<"c", "o", "v", "e", "r", "a", "g", "e">>,
       <<"s", "e", "c", "u", "r", "i", "t", "y">>,
       <<"p", "e", "r", "f", "o", "r", "m", "a", "n", "c", "e">>,
       <<"t", "y", "p", "e", "c", "h", "e", "c", "k">> >>

\* `x in CATEGORIES`: equality with one of the tuple's strings; a value that
\* is not a string equals none of them.
InCategories(v) ==
    /\ v.type = "str"
    /\ \E i \in 1..Len(CATEGORIES) : CATEGORIES[i] = v.s

\* The default of os.environ.get("CODE_PATH", "/code").
DefaultCodePath == <<"/", "c", "o", "d", "e">>

\* CODE_PATH is the value of the environment variable, or None when unset.
WORKSPACE_PATH ==
    IF CODE_PATH = None THEN DefaultCodePath ELSE CODE_PATH.s

IssuesSubdir ==
    <<".", "d", "e", "e", "p", "s", "o", "u", "r", "c", "e", "/",
      "a", "n", "a", "l", "y", "z", "e", "r", "/",
      "i", "s", "s", "u", "e", "s">>

issues_dir == os_path_join(WORKSPACE_PATH, IssuesSubdir)

(* --------------------------- functions -------------------------------- *)

\* prepare_result with the test of `issues` negated.
prepare_result_Negated(iss) ==
    [issues    |-> iss,
     metrics   |-> <<>>,
     is_passed |-> IF iss # <<>> THEN FALSE ELSE TRUE,
     errors    |-> <<>>,
     extra_data |-> ""]

prepare_result(iss) ==
    [issues    |-> iss,
     metrics   |-> <<>>,
     is_passed |-> IF iss # <<>> THEN TRUE ELSE FALSE,
     errors    |-> <<>>,
     extra_data |-> ""]

\* The literal prefix tested by get_vcs_filepath.
CodePrefix == <<"/", "c", "o", "d", "e", "/">>

get_vcs_filepath(filepath) ==
    IF startswith(filepath, CodePrefix)
    THEN SubSeq(filepath, 7, Len(filepath))
    ELSE filepath

get_issue_struct(issue_code, issue_txt, filepath, line, col) ==
    [issue_code |-> issue_code,
     issue_text |-> issue_txt,
     location   |->
        [path     |-> get_vcs_filepath(filepath),
         position |-> [begin |-> [line |-> line, column |-> col],
                       end   |-> [line |-> line, column |-> col]]]]

(* ----------------------------- main ----------------------------------- *)

\* The title check without its else branch: a title is never tested for
\* its last character.
TitleCheck_NoPeriodTest(filepath, title) ==
    IF ~Truthy(title)
    THEN [raised |-> FALSE,
          issues |-> <<get_issue_struct("ARMORY-001",
                         <<"Missing title for issue.">>, filepath, 1, 0)>>]
    ELSE [raised |-> FALSE, issues |-> <<>>]

\* Lines 111-132.  Calling title.endswith on a truthy value that is not a
\* string raises AttributeError, which nothing catches.
TitleCheck(filepath, title) ==
    IF ~Truthy(title)
    THEN [raised |-> FALSE,
          issues |-> <<get_issue_struct("ARMORY-001",
                         <<"Missing title for issue.">>, filepath, 1, 0)>>]
    ELSE IF title.type # "str"
    THEN [raised |-> TRUE, issues |-> <<>>]
    ELSE IF endswith(title.s, <<".">>)
    THEN [raised |-> FALSE,
          issues |-> <<get_issue_struct("ARMORY-001",
                         <<"Title should not end with a period.">>,
                         filepath, 1, 0)>>]
    ELSE [raised |-> FALSE, issues |-> <<>>]

\* Lines 135-156.
CategoryCheck(filepath, category) ==
    IF ~Truthy(category)
    THEN <<get_issue_struct("ARMORY-002",
              <<"Missing category field.">>, filepath, 1, 0)>>
    ELSE IF ~InCategories(category)
    THEN <<get_issue_struct("ARMORY-002",
              <<"Invalid category field">>, filepath, 1, 0)>>
    ELSE <<>>

\* The decode issue with the exception left out of its text.
DecodeErrorIssue_NoMessage(filepath, exc) ==
    get_issue_struct("ARMORY-003", <<"Error decoding toml: ">>,
                     filepath, 1, 0)

\* Lines 94-102.
DecodeErrorIssue(filepath, exc) ==
    get_issue_struct("ARMORY-003", <<"Error decoding toml: ", exc>>,
                     filepath, 1, 0)

\* The loop body without the test of `archived`.
LoopBody_IgnoreArchived(filepath, parsed) ==
    IF ~parsed.ok
    THEN [raised |-> FALSE, issues |-> <<DecodeErrorIssue(filepath, parsed.exc)>>]
    ELSE LET t == TitleCheck(filepath, parsed.data.title) IN
         IF t.raised
         THEN t
         ELSE [raised |-> FALSE,
               issues |-> t.issues \o CategoryCheck(filepath, parsed.data.category)]

\* The loop body with the category check ahead of the title check.
LoopBody_CategoryFirst(filepath, parsed) ==
    IF ~parsed.ok
    THEN [raised |-> FALSE, issues |-> <<DecodeErrorIssue(filepath, parsed.exc)>>]
    ELSE IF Truthy(parsed.data.archived)
    THEN [raised |-> FALSE, issues |-> <<>>]
    ELSE LET t == TitleCheck(filepath, parsed.data.title)
             c == CategoryCheck(filepath, parsed.data.category)
         IN [raised |-> t.raised, issues |-> c \o t.issues]

\* Lines 88-156: one pass of the loop body over a file whose content
\* toml.loads turns into `parsed`.  The result holds what the pass appends
\* to `issues` and whether it ends in an uncaught exception.
LoopBody(filepath, parsed) ==
    IF ~parsed.ok
    THEN [raised |-> FALSE, issues |-> <<DecodeErrorIssue(filepath, parsed.exc)>>]
    ELSE IF Truthy(parsed.data.archived)
    THEN [raised |-> FALSE, issues |-> <<>>]
    ELSE LET t == TitleCheck(filepath, parsed.data.title) IN
         IF t.raised
         THEN t
         ELSE [raised |-> FALSE,
               issues |-> t.issues \o CategoryCheck(filepath, parsed.data.category)]

\* Line 87.
FilePath(f) == os_path_join(issues_dir, f.name)

(* ------------------------- inputs of a run ---------------------------- *)

\* File names available in the issues directory.
Names == <<"a", "b", "c", "d">>

FileNames == {<<Names[i]>> : i \in 1..MaxFiles}

\* title: absent, "", "T", "T.", and the TOML integers 5 and 0.
Titles ==
    {None, PyStr(<<>>), PyStr(<<"T">>), PyStr(<<"T", ".">>), PyInt(5),
     PyInt(0)}

\* category: absent, "", "typecheck", "x".
Categories ==
    {None, PyStr(<<>>), PyStr(CATEGORIES[8]), PyStr(<<"x">>)}

\* archived: absent, true.
Archiveds == {None, PyBool(TRUE)}

Mapping(t, c, a) ==
    [ok |-> TRUE, data |-> [title |-> t, category |-> c, archived |-> a]]

\* What toml.loads does with a file's content: it raises, or it returns
\* the mapping (a key that is absent reads as None through dict.get).
ParseOutcomes ==
    {[ok |-> FALSE, exc |-> "Unexpected character"]}
    \cup {Mapping(t, c, a) : t \in Titles, c \in Categories, a \in Archiveds}
    \cup {Mapping(PyStr(<<"T", ".">>), PyStr(<<"x">>), PyBool(FALSE)),
          Mapping(PyStr(<<"T">>), PyStr(CATEGORIES[1]), PyBool(FALSE))}

\* The values of the environment variable CODE_PATH (None: unset).
CodePaths == {None, PyStr(<<"/", "s", "r", "v">>)}

(* ------------------------- state machine ------------------------------ *)

Init ==
    /\ CODE_PATH \in CodePaths
    /\ \E n \in 0..MaxFiles :
         \E names \in [1..n -> FileNames] :
           /\ \A i, j \in 1..n : i # j => names[i] # names[j]
           /\ \E parsed \in [1..n -> ParseOutcomes] :
                walk = [i \in 1..n |-> [name |-> names[i], parsed |-> parsed[i]]]
    /\ idx = 0
    /\ issues = <<>>
    /\ origin = <<>>
    /\ pc = "walk"
    /\ published = <<>>

\* One pass of the for loop of main (lines 85-156).
ProcessFile ==
    /\ pc = "walk"
    /\ idx < Len(walk)
    /\ LET f == walk[idx + 1]
           r == LoopBody(FilePath(f), f.parsed)
       IN /\ issues' = issues \o r.issues
          /\ origin' = origin \o [j \in 1..Len(r.issues) |-> idx + 1]
          /\ pc' = IF r.raised THEN "raised" ELSE "walk"
    /\ idx' = idx + 1
    /\ UNCHANGED <<CODE_PATH, walk, published>>

\* Lines 158-161: the walk is over, the envelope goes to the publisher.
Publish ==
    /\ pc = "walk"
    /\ idx = Len(walk)
    /\ published' = Append(published, prepare_result(issues))
    /\ pc' = "done"
    /\ UNCHANGED <<CODE_PATH, walk, idx, issues, origin>>

Next == ProcessFile \/ Publish

Spec == Init /\ [][Next]_vars

TypeOK ==
    /\ pc \in {"walk", "raised", "done"}
    /\ idx \in 0..Len(walk)
    /\ Len(published) <= 1
    /\ Len(origin) = Len(issues)

(* ------------------------ vocabulary of the claims -------------------- *)

\* The issues appended while file number k of the walk was in hand, in order.
IssuesOf(k) ==
    LET pos == {j \in 1..Len(issues) : origin[j] = k}
        F[j \in 0..Len(issues)] ==
            IF j = 0 THEN <<>>
            ELSE IF j \in pos THEN Append(F[j - 1], issues[j]) ELSE F[j - 1]
    IN F[Len(issues)]

WithCode(iss, code) ==
    LET F[j \in 0..Len(iss)] ==
            IF j = 0 THEN <<>>
            ELSE IF iss[j].issue_code = code THEN Append(F[j - 1], iss[j])
            ELSE F[j - 1]
    IN F[Len(iss)]

AtLine1Column0(i) ==
    /\ i.location.position.begin = [line |-> 1, column |-> 0]
    /\ i.location.position.end = [line |-> 1, column |-> 0]

Examined == 1..idx

Unparsable(k) == ~walk[k].parsed.ok

\* archived is present and true.
IsArchived(k) ==
    /\ walk[k].parsed.ok
    /\ walk[k].parsed.data.archived = PyBool(TRUE)

ParsedNotArchived(k) ==
    /\ walk[k].parsed.ok
    /\ walk[k].parsed.data.archived \in {None, PyBool(FALSE)}

TitleOf(k) == walk[k].parsed.data.title

CategoryOf(k) == walk[k].parsed.data.category

\* Missing or empty: the key is absent, or its value is the empty string or
\* the number zero.
MissingOrEmpty(v) == v \in {None, PyStr(<<>>), PyInt(0)}

EndsWithPeriod(v) ==
    /\ v.type = "str"
    /\ Len(v.s) > 0
    /\ v.s[Len(v.s)] = "."

EightCategories ==
    {CATEGORIES[1], CATEGORIES[2], CATEGORIES[3], CATEGORIES[4],
     CATEGORIES[5], CATEGORIES[6], CATEGORIES[7], CATEGORIES[8]}

(* ------------------------------- C1 ----------------------------------- *)

\* C1: a file whose content cannot be parsed gets exactly one issue, with
\* code ARMORY-003, a text that contains the parser's message, and position
\* line 1 column 0; no ARMORY-001 or ARMORY-002 issue is produced for it.
C1_DecodeError ==
    \A k \in Examined :
        Unparsable(k) =>
            LET own == IssuesOf(k) IN
            /\ Len(own) = 1
            /\ own[1].issue_code = "ARMORY-003"
            /\ \E j \in 1..Len(own[1].issue_text) :
                   own[1].issue_text[j] = walk[k].parsed.exc
            /\ AtLine1Column0(own[1])
            /\ WithCode(own, "ARMORY-001") = <<>>
            /\ WithCode(own, "ARMORY-002") = <<>>

C1_Witness ==
    /\ pc = "done"
    /\ \E k \in Examined : Unparsable(k)

(* ------------------------------- C2 ----------------------------------- *)

\* C2: a file that parses and whose archived field is true produces no
\* issue, whatever its title and category are.
C2_Archived ==
    \A k \in Examined : IsArchived(k) => IssuesOf(k) = <<>>

C2_Witness ==
    /\ pc = "done"
    /\ \E k \in Examined :
          /\ IsArchived(k)
          /\ TitleOf(k) = None
          /\ CategoryOf(k) = PyStr(<<"x">>)

(* ------------------------------- C3 ----------------------------------- *)

C4_CategoryCheck ==
    \A k \in Examined :
        ParsedNotArchived(k) =>
            LET c002 == WithCode(IssuesOf(k), "ARMORY-002")
                c    == CategoryOf(k)
                valid == c.type = "str" /\ c.s \in EightCategories
            IN
            /\ MissingOrEmpty(c) =>
                  /\ Len(c002) = 1
                  /\ c002[1].issue_text = <<"Missing category field.">>
            /\ (~MissingOrEmpty(c) /\ ~valid) =>
                  /\ Len(c002) = 1
                  /\ c002[1].issue_text = <<"Invalid category field">>
            /\ valid => c002 = <<>>

(* ------------------------------- C5 ----------------------------------- *)

\* C5: in the envelope handed to the publisher, is_passed is true if and
\* only if the issues sequence is not empty.
C5_IsPassedIffIssues ==
    \A e \in 1..Len(published) :
        /\ published[e].issues = issues
        /\ published[e].is_passed <=> Len(published[e].issues) > 0

C5_Witness ==
    /\ Len(published) = 1
    /\ Len(issues) > 0

(* ------------------------------- C6 ----------------------------------- *)

\* C6: in the envelope handed to the publisher, is_passed is true only
\* when the issues sequence is empty.
C6_IsPassedOnlyWithoutIssues ==
    \A e \in 1..Len(published) :
        published[e].is_passed => published[e].issues = <<>>

(* ------------------------------- C7 ----------------------------------- *)

\* The workspace root followed by a separator.
WorkspacePrefix == WORKSPACE_PATH \o <<"/">>

\* C7: the path reported for an issue is the path of its file with the
\* workspace prefix removed when the path begins with that prefix, and the
\* path unchanged otherwise, for every value of the workspace root.
C7_PathNormalization ==
    \A j \in 1..Len(issues) :
        LET fp == FilePath(walk[origin[j]]) IN
        IF startswith(fp, WorkspacePrefix)
        THEN issues[j].location.path =
                SubSeq(fp, Len(WorkspacePrefix) + 1, Len(fp))
        ELSE issues[j].location.path = fp

(* ------------------------------- C8 ----------------------------------- *)

\* C8: when the run has ended, every file of the walk has been examined
\* and the issues it produces when validated alone are in the issues
\* sequence, whatever the other files contain.
C8_WalkContinues ==
    pc \in {"done", "raised"} =>
        \A k \in 1..Len(walk) :
            /\ k \in Examined
            /\ IssuesOf(k) = LoopBody(FilePath(walk[k]), walk[k].parsed).issues

(* ------------------------------- C9 ----------------------------------- *)

\* C9: no run ends abnormally, whatever the fields hold; the publisher is
\* invoked once, after every file has been examined, with the envelope of
\* all accumulated issues, and nothing is appended after the publish.
C9_CompletesNormally ==
    /\ pc # "raised"
    /\ Len(published) <= 1
    /\ pc = "done" <=> Len(published) = 1
    /\ Len(published) = 1 =>
          /\ idx = Len(walk)
          /\ published[1].issues = issues

(* ------------------------------- C10 ---------------------------------- *)

C10_Contiguous ==
    \A i, j \in 1..Len(issues) :
        (i < j /\ origin[i] = origin[j]) =>
            \A m \in i..j : origin[m] = origin[i]

C10_TitleThenCategory ==
    \A i, j \in 1..Len(issues) :
        (/\ origin[i] = origin[j]
         /\ issues[i].issue_code = "ARMORY-001"
         /\ issues[j].issue_code = "ARMORY-002") => j = i + 1

C10_AppendOnly ==
    /\ Len(issues') >= Len(issues)
    /\ SubSeq(issues', 1, Len(issues)) = issues
    /\ SubSeq(origin', 1, Len(origin)) = origin

\* C10: the ARMORY-001 issue of a file comes immediately before the
\* ARMORY-002 issue of the same file, the issues of one file are
\* contiguous, and a step never removes or reorders the issues already
\* appended.
C10_CheckOrder ==
    /\ [](C10_Contiguous /\ C10_TitleThenCategory)
    /\ [][C10_AppendOnly]_vars

C10_Witness ==
    /\ pc = "done"
    /\ \E i \in 1..Len(issues) :
          /\ i > 1
          /\ i < Len(issues)
          /\ issues[i].issue_code = "ARMORY-001"
          /\ issues[i + 1].issue_code = "ARMORY-002"
          /\ origin[i - 1] # origin[i]

====
